---- MODULE Spec2Model ----
(***************************************************************************)
(* Model of connector_search_engine/models/se_binding.py: the se.binding   *)
(* abstract model (sync_state machine, deletion guard, work partitioner    *)
(* and recompute engine).                                                  *)
(***************************************************************************)
EXTENDS Integers, Sequences, FiniteSets, Bags, TLC

\* ---------------------------------------------------------------- bounds
NBindings == 2
NIndexes == 2
NPartBindings == 3
NPartIndexes == 3
NSyncBindings == 2
MaxJobs == 3
NRaceBindings == 1

\* the empty value of the Serialized field `data`
None == "None"

MaxOf(S) == CHOOSE n \in S : \A m \in S : m <= n

MaxN == MaxOf({NBindings, NPartBindings, NSyncBindings, NRaceBindings})

Ids == 1..MaxN
\* the documents a mapper can return: one the validator accepts, one it
\* rejects
Docs == {"doc", "bad_doc"}
States == {"new", "to_update", "scheduled", "done", "to_be_checked"}

VARIABLES
    next_id,      \* next database id handed out by create
    existing,     \* ids of the rows that exist
    index_id,     \* binding -> its index (0 while the id is unused)
    sync_state,   \* binding -> sync_state
    active,       \* binding -> active
    data,         \* binding -> stored export document
    index_record, \* binding -> what the export mapper returns for it now
    jobs,         \* delayed recompute_json jobs, not yet executed
    ret,          \* outcome of the last call
    works,        \* work sessions yielded by the last _work_by_index call
    sync,         \* the synchronize call in progress, one work at a time
    proc          \* the recompute_json call in progress, between its reads
                  \* and its write

\* the calls that are followed one statement at a time
steps == <<sync, proc>>

vars == <<next_id, existing, index_id, sync_state, active, data,
          index_record, jobs, ret, works, steps>>

\* ------------------------------------------------------------ recordsets
\* A recordset is an ordered collection of ids without duplicates.
RecordsetsOf(S) ==
    { s \in UNION { [1..n -> S] : n \in 0..Cardinality(S) } :
        \A i, j \in DOMAIN s : i # j => s[i] # s[j] }

Range(s) == { s[i] : i \in DOMAIN s }

\* se_backend_id is related to index_id.backend_id: the index fixes the
\* backend. There are two backends; the indexes alternate between them.
backend_id(index) == (index % 2) + 1

se_backend_id(db, b) == backend_id(db.index_id[b])

\* the table, as one value the operations thread through their steps
DB == [existing |-> existing, index_id |-> index_id, sync_state |-> sync_state,
       active |-> active, data |-> data, written |-> {}]

\* ------------------------------------------------------------- ORM layer
\* super().write(vals) on the rows `ids`: every key of vals is stored.
BaseWrite(db, ids, vals) ==
    [db EXCEPT
        !.sync_state = [b \in DOMAIN @ |->
            IF b \in ids /\ "sync_state" \in DOMAIN vals
            THEN vals.sync_state ELSE @[b]],
        !.active = [b \in DOMAIN @ |->
            IF b \in ids /\ "active" \in DOMAIN vals
            THEN vals.active ELSE @[b]],
        !.data = [b \in DOMAIN @ |->
            IF b \in ids /\ "data" \in DOMAIN vals
            THEN vals.data ELSE @[b]],
        !.written = @ \cup ids]

\* super().unlink(): the rows are gone; their ids are never used again.
BaseUnlink(db, ids) ==
    [db EXCEPT
        !.existing = @ \ ids,
        !.index_id = [b \in DOMAIN @ |-> IF b \in ids THEN 0 ELSE @[b]],
        !.sync_state = [b \in DOMAIN @ |-> IF b \in ids THEN "new" ELSE @[b]],
        !.active = [b \in DOMAIN @ |-> IF b \in ids THEN TRUE ELSE @[b]],
        !.data = [b \in DOMAIN @ |-> IF b \in ids THEN None ELSE @[b]]]

\* self.exists()
exists(db, self) == SelectSeq(self, LAMBDA b : b \in db.existing)

\* self.mapped(field): the field's values, each once, in order of first use
RECURSIVE mapped(_, _, _)
mapped(self, f, i) ==
    IF i > Len(self) THEN <<>>
    ELSE LET rest == mapped(self, f, i + 1)
             v == f[self[i]]
         IN <<v>> \o SelectSeq(rest, LAMBDA w : w # v)

\* ------------------------------------------------------------- write
new_vals(vals) ==
    [k \in DOMAIN vals \cup {"sync_state"} |->
        IF k = "sync_state" THEN "to_update" ELSE vals[k]]

\* faulty variant: the deactivation does not spare the new bindings
write_all_to_update(db, self, vals) ==
    LET deactivate == "active" \in DOMAIN vals /\ ~vals.active
        not_new == IF deactivate THEN Range(self) ELSE {}
        db1 == IF deactivate THEN BaseWrite(db, not_new, new_vals(vals)) ELSE db
    IN BaseWrite(db1, Range(self) \ not_new, vals)

write(db, self, vals) ==
    LET deactivate == "active" \in DOMAIN vals /\ ~vals.active
        not_new == IF deactivate
                   THEN {b \in Range(self) : db.sync_state[b] # "new"}
                   ELSE {}
        db1 == IF deactivate THEN BaseWrite(db, not_new, new_vals(vals)) ELSE db
    IN BaseWrite(db1, Range(self) \ not_new, vals)

\* ------------------------------------------------------------- unlink
\* faulty variant: a synchronized binding is deletable while still active
deletable_any_done(db, record) ==
    \/ db.sync_state[record] = "new"
    \/ db.sync_state[record] = "done"

deletable(db, record) ==
    \/ db.sync_state[record] = "new"
    \/ db.sync_state[record] = "done" /\ ~db.active[record]

\* the UserError unlink raises, or no error (raised = "")
NoError == [raised |-> "", record |-> 0]

\* faulty variant: the message is chosen by sync_state instead of active
unlink_error_by_state(db, self) ==
    LET bad == {i \in DOMAIN self : ~deletable(db, self[i])}
    IN IF bad = {} THEN NoError
       ELSE LET i == CHOOSE k \in bad : \A m \in bad : k <= m
                record == self[i]
            IN IF db.sync_state[record] = "done"
               THEN [raised |-> "cannot_delete_active", record |-> record]
               ELSE [raised |-> "cannot_delete_not_synchronized", record |-> record]

unlink_error(db, self) ==
    LET bad == {i \in DOMAIN self : ~deletable(db, self[i])}
    IN IF bad = {} THEN NoError
       ELSE LET i == CHOOSE k \in bad : \A m \in bad : k <= m
                record == self[i]
            IN IF db.active[record]
               THEN [raised |-> "cannot_delete_active", record |-> record]
               ELSE [raised |-> "cannot_delete_not_synchronized", record |-> record]

\* faulty variant: the records are removed one by one until the guard fails
unlink_partial(db, self) ==
    LET bad == {i \in DOMAIN self : ~deletable(db, self[i])}
    IN IF bad = {} THEN BaseUnlink(db, Range(self))
       ELSE LET i == CHOOSE k \in bad : \A m \in bad : k <= m
            IN BaseUnlink(db, {self[k] : k \in 1..(i - 1)})

unlink(db, self) ==
    IF unlink_error(db, self).raised # "" THEN db
    ELSE BaseUnlink(db, Range(self))

\* ------------------------------------------------------- _work_by_index
\* the (backend, index) pairs the two nested loops go through, in order
work_keys(db, self) ==
    LET recs == exists(db, self)
        backends == mapped(recs, [b \in DOMAIN db.index_id |-> se_backend_id(db, b)], 1)
        indexes == mapped(recs, db.index_id, 1)
    IN [k \in 1..(Len(backends) * Len(indexes)) |->
           [backend |-> backends[((k - 1) \div Len(indexes)) + 1],
            index |-> indexes[((k - 1) % Len(indexes)) + 1]]]

\* faulty variant: the groups are not filtered on active
work_records_any_active(db, recs, backend, index, act) ==
    SelectSeq(recs, LAMBDA b : /\ se_backend_id(db, b) = backend
                               /\ db.index_id[b] = index)

\* self.filtered(...) for one pair
work_records(db, recs, backend, index, act) ==
    SelectSeq(recs, LAMBDA b : /\ se_backend_id(db, b) = backend
                               /\ db.index_id[b] = index
                               /\ db.active[b] = act)

\* the work sessions yielded, when the caller's loop body changes neither
\* active nor index_id
_work_by_index(db, self, act) ==
    LET recs == exists(db, self)
        keys == work_keys(db, self)
    IN [k \in DOMAIN keys |->
           [backend |-> keys[k].backend, index |-> keys[k].index,
            records |-> work_records(db, recs, keys[k].backend, keys[k].index, act)]]

\* ------------------------------------------------------- recompute_json
\* what index_record holds for a binding whose mapper raises
MapperError == "mapper_error"

\* the validator of the work's collection: the documents it rejects
InvalidDocs == {"bad_doc"}

_validate_record(backend, doc) == doc \in InvalidDocs

\* faulty variant: the changed data is stored without flagging the binding
recompute_binding_keep_state(acc, binding, backend, force_export) ==
    LET db == acc.db
        doc == index_record[binding]
    IN IF _validate_record(backend, doc)
       THEN [acc EXCEPT !.validation_errors = Append(@, binding)]
       ELSE IF db.data[binding] # doc \/ force_export
            THEN [acc EXCEPT !.db = write(db, <<binding>>, [data |-> doc])]
            ELSE acc

\* faulty variant: force_export is ignored
recompute_binding_no_force(acc, binding, backend, force_export) ==
    LET db == acc.db
        doc == index_record[binding]
    IN IF _validate_record(backend, doc)
       THEN [acc EXCEPT !.validation_errors = Append(@, binding)]
       ELSE IF db.data[binding] # doc
            THEN LET vals == IF db.sync_state[binding] # "to_update"
                             THEN [data |-> doc, sync_state |-> "to_update"]
                             ELSE [data |-> doc]
                 IN [acc EXCEPT !.db = write(db, <<binding>>, vals)]
            ELSE acc

\* faulty variant: the record that fails validation is not skipped
recompute_binding_no_skip(acc, binding, backend, force_export) ==
    LET db == acc.db
        doc == index_record[binding]
        errors == IF _validate_record(backend, doc)
                  THEN Append(acc.validation_errors, binding)
                  ELSE acc.validation_errors
    IN IF db.data[binding] # doc \/ force_export
       THEN LET vals == IF db.sync_state[binding] # "to_update"
                        THEN [data |-> doc, sync_state |-> "to_update"]
                        ELSE [data |-> doc]
            IN [acc EXCEPT !.db = write(db, <<binding>>, vals),
                           !.validation_errors = errors]
       ELSE [acc EXCEPT !.validation_errors = errors]

\* faulty variant: a quarantined binding whose data is up to date is flagged
recompute_binding_release(acc, binding, backend, force_export) ==
    LET db == acc.db
        doc == index_record[binding]
    IN IF _validate_record(backend, doc)
       THEN [acc EXCEPT !.validation_errors = Append(@, binding)]
       ELSE LET vals == IF db.sync_state[binding] # "to_update"
                        THEN [data |-> doc, sync_state |-> "to_update"]
                        ELSE [data |-> doc]
            IN IF db.data[binding] # doc \/ force_export
                  \/ db.sync_state[binding] = "to_be_checked"
               THEN [acc EXCEPT !.db = write(db, <<binding>>, vals)]
               ELSE acc

\* one pass of the inner loop body once the mapper has returned;
\* acc = [db, validation_errors, raised]
recompute_binding(acc, binding, backend, force_export) ==
    LET db == acc.db
        doc == index_record[binding]
        error == _validate_record(backend, doc)
    IN IF error
       THEN [acc EXCEPT !.validation_errors = Append(@, binding)]
       ELSE IF db.data[binding] # doc \/ force_export
            THEN LET vals == IF db.sync_state[binding] # "to_update"
                             THEN [data |-> doc, sync_state |-> "to_update"]
                             ELSE [data |-> doc]
                 IN [acc EXCEPT !.db = write(db, <<binding>>, vals)]
            ELSE acc

\* faulty variant: an exception of the mapper is caught and the binding
\* is quarantined
RECURSIVE recompute_records_catch(_, _, _, _, _)
recompute_records_catch(acc, records, i, backend, force_export) ==
    IF i > Len(records) THEN acc
    ELSE IF index_record[records[i]] = MapperError
    THEN recompute_records_catch(
             [acc EXCEPT !.validation_errors = Append(@, records[i])],
             records, i + 1, backend, force_export)
    ELSE recompute_records_catch(
             recompute_binding(acc, records[i], backend, force_export),
             records, i + 1, backend, force_export)

\* the inner loop; an exception of the mapper leaves it (raised = the
\* binding being mapped)
RECURSIVE recompute_records(_, _, _, _, _)
recompute_records(acc, records, i, backend, force_export) ==
    IF i > Len(records) \/ acc.raised # 0 THEN acc
    ELSE IF index_record[records[i]] = MapperError
    THEN [acc EXCEPT !.raised = records[i]]
    ELSE recompute_records(
             recompute_binding(acc, records[i], backend, force_export),
             records, i + 1, backend, force_export)

\* faulty variant: the inactive bindings of the pair are processed too
RECURSIVE recompute_works_inactive(_, _, _, _, _)
recompute_works_inactive(acc, recs, keys, k, force_export) ==
    IF k > Len(keys) \/ acc.raised # 0 THEN acc
    ELSE LET records == work_records(acc.db, recs, keys[k].backend,
                                     keys[k].index, TRUE)
                        \o work_records(acc.db, recs, keys[k].backend,
                                        keys[k].index, FALSE)
         IN recompute_works_inactive(
                recompute_records(acc, records, 1, keys[k].backend, force_export),
                recs, keys, k + 1, force_export)

\* the outer loop: each work's records are filtered when the work is reached
RECURSIVE recompute_works(_, _, _, _, _)
recompute_works(acc, recs, keys, k, force_export) ==
    IF k > Len(keys) \/ acc.raised # 0 THEN acc
    ELSE LET records == work_records(acc.db, recs, keys[k].backend,
                                     keys[k].index, TRUE)
         IN recompute_works(
                recompute_records(acc, records, 1, keys[k].backend, force_export),
                recs, keys, k + 1, force_export)

\* returns [db, validation_errors, raised]; the report is empty iff
\* validation_errors is, and names the bindings of validation_errors; when
\* the mapper raised (raised # 0) the call ends there, without a report
recompute_json(db, self, force_export) ==
    LET acc == recompute_works([db |-> db, validation_errors |-> <<>>,
                                raised |-> 0],
                               exists(db, self), work_keys(db, self), 1,
                               force_export)
        to_be_checked == acc.validation_errors
    IN IF acc.raised # 0 THEN acc
       ELSE IF to_be_checked # <<>>
       THEN [acc EXCEPT !.db = write(acc.db, to_be_checked,
                                     [sync_state |-> "to_be_checked"])]
       ELSE acc

\* ---------------------------------------------------------------- state
Store(db) ==
    /\ existing' = db.existing
    /\ index_id' = db.index_id
    /\ sync_state' = db.sync_state
    /\ active' = db.active
    /\ data' = db.data

\* what the caller of the last operation observed: which operation it was
\* and the UserError it raised, if any
Ret(op, err) == [op |-> op, raised |-> err.raised, record |-> err.record]

\* no _work_by_index call observed yet
NoWorks == [called |-> FALSE, self |-> <<>>, active |-> TRUE, yielded |-> <<>>]

\* no synchronize call in progress.  pc is where the call is (idle, export:
\* in the first loop, delete: in the second loop, returned, failed); recs and
\* keys are what the running _work_by_index generator computed when it
\* started; k is the pair it yields next; log is the component runs so far;
\* entry and entry_active are the existing and the active bindings of self
\* when the call started; stable: active was not written since then.
NoSync == [pc |-> "idle", self |-> <<>>, recs |-> <<>>, keys |-> <<>>, k |-> 0,
           export_ids |-> <<>>, delete_ids |-> <<>>, report |-> FALSE,
           log |-> <<>>, entry |-> {}, entry_active |-> {}, stable |-> TRUE]

\* no recompute_json call in progress.  pc is where the call is (idle,
\* write: before binding.write(vals), check: before the write of
\* to_be_checked); vals is what it is about to write on binding; read is the
\* data and the sync_state it read to decide so.
NoProc == [pc |-> "idle", binding |-> 0, vals |-> <<>>, read |-> <<>>]

Init ==
    /\ next_id = 1
    /\ existing = {}
    /\ index_id = [b \in Ids |-> 0]
    /\ sync_state = [b \in Ids |-> "new"]
    /\ active = [b \in Ids |-> TRUE]
    /\ data = [b \in Ids |-> None]
    /\ index_record = [b \in Ids |-> "doc"]
    /\ jobs = EmptyBag
    /\ ret = Ret("init", NoError)
    /\ works = NoWorks
    /\ sync = NoSync
    /\ proc = NoProc

Job(binding, force_export) == [binding |-> binding, force_export |-> force_export]

\* jobify_recompute_json: one delayed job per record
RECURSIVE jobify(_, _, _, _)
jobify(queue, self, i, force_export) ==
    IF i > Len(self) THEN queue
    ELSE jobify(queue (+) SetToBag({Job(self[i], force_export)}),
                self, i + 1, force_export)

\* the documents callers store with create and write
StoredDocs == {None, "doc"}

\* the recordsets a caller can hold: ids handed out so far
Created(self) == Range(self) \subseteq 1..(next_id - 1)

\* faulty variant: create runs the recompute itself
CreateInline ==
    \E index \in 1..NIndexes, act \in BOOLEAN, d \in StoredDocs, doc \in Docs :
        /\ next_id <= NBindings
        /\ next_id' = next_id + 1
        /\ index_record' = [index_record EXCEPT ![next_id] = doc]
        /\ LET db == [DB EXCEPT !.existing = @ \cup {next_id},
                                !.index_id[next_id] = index,
                                !.sync_state[next_id] = "new",
                                !.active[next_id] = act,
                                !.data[next_id] = d]
               vals == IF doc \in InvalidDocs
                       THEN [sync_state |-> "to_be_checked"]
                       ELSE [data |-> doc, sync_state |-> "to_update"]
           IN Store(IF act THEN write(db, <<next_id>>, vals) ELSE db)
        /\ ret' = Ret("create", NoError)
        /\ UNCHANGED <<jobs, works, steps>>

\* create(vals): the row is inserted with the defaults of the fields
\* (sync_state new), then the recompute is delayed.
Create ==
    \E index \in 1..NIndexes, act \in BOOLEAN, d \in StoredDocs, doc \in Docs :
        /\ next_id <= NBindings
        /\ next_id' = next_id + 1
        /\ existing' = existing \cup {next_id}
        /\ index_id' = [index_id EXCEPT ![next_id] = index]
        /\ sync_state' = [sync_state EXCEPT ![next_id] = "new"]
        /\ active' = [active EXCEPT ![next_id] = act]
        /\ data' = [data EXCEPT ![next_id] = d]
        /\ index_record' = [index_record EXCEPT ![next_id] = doc]
        /\ jobs' = jobify(jobs, <<next_id>>, 1, FALSE)
        /\ ret' = Ret("create", NoError)
        /\ UNCHANGED <<works, steps>>

\* the values a caller passes to write
Vals ==
    { [active |-> a] : a \in BOOLEAN }
    \cup { [sync_state |-> s] : s \in States }
    \cup { [data |-> d] : d \in StoredDocs }
    \cup { [active |-> FALSE, sync_state |-> s] : s \in States }

Recordsets == RecordsetsOf(1..NBindings)

\* write does not depend on the order of the records
SortedRecordsets ==
    { s \in Recordsets : \A i, j \in DOMAIN s : i < j => s[i] < s[j] }

Write(self, vals) ==
    /\ Range(self) \subseteq existing
    /\ LET db == write(DB, self, vals)
       IN /\ Store(db)
          /\ ret' = Ret("write", NoError)
    /\ UNCHANGED <<next_id, index_record, jobs, works, steps>>

Unlink(self) ==
    /\ Range(self) \subseteq existing
    /\ Store(unlink(DB, self))
    /\ ret' = Ret("unlink", unlink_error(DB, self))
    /\ UNCHANGED <<next_id, index_record, jobs, works, steps>>

\* the exception a recompute_json call ends with, if any
MapperRaised(res) ==
    IF res.raised # 0 THEN [raised |-> MapperError, record |-> res.raised]
    ELSE NoError

\* jobify_recompute_json called on a recordset
JobifyRecomputeJson(self, force_export) ==
    /\ Range(self) \subseteq existing
    /\ self # <<>>
    /\ BagCardinality(jobs) + Len(self) <= MaxJobs
    /\ jobs' = jobify(jobs, self, 1, force_export)
    /\ ret' = Ret("jobify_recompute_json", NoError)
    /\ UNCHANGED <<next_id, existing, index_id, sync_state, active, data,
                   index_record, works, steps>>

RecomputeJson(self, force_export) ==
    /\ Range(self) \subseteq 1..(next_id - 1)
    /\ LET res == recompute_json(DB, self, force_export)
       IN /\ Store(res.db)
          /\ ret' = Ret("recompute_json", MapperRaised(res))
    /\ UNCHANGED <<next_id, index_record, jobs, works, steps>>

\* the job runner executes one delayed recompute_json (the job queue is
\* consumed under the specifications about the delayed jobs)
RunJob ==
    \E job \in BagToSet(jobs) :
        /\ LET res == recompute_json(DB, <<job.binding>>, job.force_export)
           IN /\ Store(res.db)
              /\ ret' = Ret("job", MapperRaised(res))
        /\ jobs' = jobs (-) SetToBag({job})
        /\ UNCHANGED <<next_id, index_record, works, steps>>

\* the business record behind a binding changes: the mapper's output changes
RecordChange ==
    \E b \in existing, doc \in Docs :
        /\ index_record[b] # doc
        /\ index_record' = [index_record EXCEPT ![b] = doc]
        /\ ret' = Ret("record_change", NoError)
        /\ UNCHANGED <<next_id, existing, index_id, sync_state, active, data,
                       jobs, works, steps>>

Next ==
    \/ Create
    \/ \E self \in SortedRecordsets, vals \in Vals : Write(self, vals)
    \/ \E self \in Recordsets : Unlink(self)
    \/ \E self \in Recordsets, force_export \in BOOLEAN :
           RecomputeJson(self, force_export)
    \/ RecordChange

Spec == Init /\ [][Next]_vars

\* ------------------------------ a delayed job, statement by statement
\* faulty variant: the job is taken from the queue and not executed
JobStart_dropped(job) ==
    /\ proc.pc = "idle"
    /\ job \in BagToSet(jobs)
    /\ jobs' = jobs (-) SetToBag({job})
    /\ ret' = Ret("job", NoError)
    /\ UNCHANGED <<next_id, existing, index_id, sync_state, active, data,
                   index_record, works, steps>>

\* The job runner takes a delayed job and runs recompute_json on its one
\* binding, up to the write: the work is yielded, the mapper and the
\* validator are called, data and sync_state are read and vals is built.
JobStart(job) ==
    /\ proc.pc = "idle"
    /\ job \in BagToSet(jobs)
    /\ jobs' = jobs (-) SetToBag({job})
    /\ LET binding == job.binding
           doc == index_record[binding]
           read == <<data[binding], sync_state[binding]>>
           vals == IF sync_state[binding] # "to_update"
                   THEN [data |-> doc, sync_state |-> "to_update"]
                   ELSE [data |-> doc]
       IN IF binding \notin existing \/ ~active[binding]
          THEN /\ ret' = Ret("job", NoError)
               /\ UNCHANGED proc
          ELSE IF doc = MapperError
          THEN /\ ret' = Ret("job", [raised |-> MapperError, record |-> binding])
               /\ UNCHANGED proc
          ELSE IF _validate_record(se_backend_id(DB, binding), doc)
          THEN /\ proc' = [pc |-> "check", binding |-> binding, read |-> read,
                           vals |-> [sync_state |-> "to_be_checked"]]
               /\ UNCHANGED ret
          ELSE IF data[binding] # doc \/ job.force_export
          THEN /\ proc' = [pc |-> "write", binding |-> binding, read |-> read,
                           vals |-> vals]
               /\ UNCHANGED ret
          ELSE /\ ret' = Ret("job", NoError)
               /\ UNCHANGED proc
    /\ UNCHANGED <<next_id, existing, index_id, sync_state, active, data,
                   index_record, works, sync>>

\* faulty variant: the write is held back when the binding is not what the
\* call has read
RecWrite_locked ==
    /\ proc.pc \in {"write", "check"}
    /\ proc.binding \in existing
    /\ proc.read = <<data[proc.binding], sync_state[proc.binding]>>
    /\ Store(write(DB, <<proc.binding>>, proc.vals))
    /\ proc' = NoProc
    /\ ret' = Ret("job", NoError)
    /\ UNCHANGED <<next_id, index_record, jobs, works, sync>>

\* the call goes on: binding.write(vals), or the write of to_be_checked
\* after the loop, and recompute_json returns
RecWrite ==
    /\ proc.pc \in {"write", "check"}
    /\ proc.binding \in existing
    /\ Store(write(DB, <<proc.binding>>, proc.vals))
    /\ proc' = NoProc
    /\ ret' = Ret("job", NoError)
    /\ UNCHANGED <<next_id, index_record, jobs, works, sync>>

\* ------------------------------------------------- the delayed jobs
\* Bindings are created, recomputes are delayed and the job runner executes
\* the delayed jobs, in any order.
NextJobs ==
    \/ Create
    \/ \E self \in Recordsets, force_export \in BOOLEAN :
           JobifyRecomputeJson(self, force_export)
    \/ RunJob

SpecJobs == Init /\ [][NextJobs]_vars

\* ---------------------------------------- synchronize, work by work
\* exporter.run() of the se.record.exporter component when it succeeds: the
\* documents of work.records are pushed and the records are marked done
exporter_run(db, records) == write(db, records, [sync_state |-> "done"])

\* deleter.run() of the record.exporter.deleter component when it succeeds:
\* the documents are removed from the index and the records are marked done
deleter_run(db, records) == write(db, records, [sync_state |-> "done"])

\* one run of a component: the records of the work and what they held when
\* the work was yielded
Run(usage, db, records, ok) ==
    [usage |-> usage, records |-> records, ok |-> ok,
     seen |-> {<<b, db.sync_state[b], db.data[b]>> : b \in Range(records)}]

\* faulty variant: the second loop filters like the first
sync_records_active_only(db, s) ==
    work_records(db, s.recs, s.keys[s.k].backend, s.keys[s.k].index, TRUE)

\* work.records of the work the running generator yields next
sync_records(db, s) ==
    work_records(db, s.recs, s.keys[s.k].backend, s.keys[s.k].index,
                 s.pc = "export")

\* a generator of _work_by_index starts: self.exists() and the two mapped()
sync_generator(db, s, pc) ==
    [s EXCEPT !.pc = pc, !.recs = exists(db, s.self),
              !.keys = work_keys(db, s.self), !.k = 1]

SyncIds == 1..NSyncBindings

\* Any table of bindings that exist, each new or already recomputed; the
\* mapper raises for some of them.
InitSync ==
    /\ next_id = NSyncBindings + 1
    /\ existing = SyncIds
    /\ index_id \in [Ids -> 0..NIndexes]
    /\ \A b \in Ids : index_id[b] = 0 <=> b \notin existing
    /\ active \in [Ids -> BOOLEAN]
    /\ \A b \in Ids : b \notin existing => active[b]
    /\ sync_state \in [Ids -> States]
    /\ \A b \in Ids : b \notin existing => sync_state[b] = "new"
    /\ data = [b \in Ids |-> IF sync_state[b] = "new" \/ b \notin existing
                             THEN None ELSE "doc"]
    /\ index_record \in [Ids -> {"doc", MapperError}]
    /\ \A b \in Ids : b \notin existing => index_record[b] = "doc"
    /\ jobs = EmptyBag
    /\ ret = Ret("init", NoError)
    /\ works = NoWorks
    /\ sync = NoSync
    /\ proc = NoProc

\* synchronize is called: the first loop asks the first generator for a work
SyncStart(self) ==
    /\ sync.pc = "idle"
    /\ Created(self)
    /\ sync' = [sync_generator(DB, [NoSync EXCEPT !.self = self], "export")
                  EXCEPT !.entry = Range(self) \cap existing,
                         !.entry_active = {b \in Range(self) \cap existing :
                                               active[b]}]
    /\ UNCHANGED <<next_id, existing, index_id, sync_state, active, data,
                   index_record, jobs, ret, works, proc>>

\* faulty variant: the failure of an exporter is swallowed and the loop
\* goes on
SyncExport_continue(ok) ==
    /\ sync.pc = "export"
    /\ sync.k <= Len(sync.keys)
    /\ LET records == sync_records(DB, sync)
           run == Run("exporter", DB, records, ok)
       IN IF ok
          THEN /\ Store(exporter_run(DB, records))
               /\ sync' = [sync EXCEPT !.k = @ + 1,
                                       !.export_ids = @ \o records,
                                       !.log = Append(@, run)]
               /\ UNCHANGED ret
          ELSE /\ sync' = [sync EXCEPT !.k = @ + 1, !.log = Append(@, run)]
               /\ UNCHANGED <<existing, index_id, sync_state, active, data, ret>>
    /\ UNCHANGED <<next_id, index_record, jobs, works, proc>>

\* one turn of the first loop: the generator filters the records of the next
\* pair and yields the work, the exporter runs, the ids are collected.  An
\* exception of the exporter leaves synchronize.
SyncExport(ok) ==
    /\ sync.pc = "export"
    /\ sync.k <= Len(sync.keys)
    /\ LET records == sync_records(DB, sync)
           run == Run("exporter", DB, records, ok)
       IN IF ok
          THEN /\ Store(exporter_run(DB, records))
               /\ sync' = [sync EXCEPT !.k = @ + 1,
                                       !.export_ids = @ \o records,
                                       !.log = Append(@, run)]
               /\ UNCHANGED ret
          ELSE /\ sync' = [sync EXCEPT !.pc = "failed", !.log = Append(@, run)]
               /\ ret' = Ret("synchronize",
                             [raised |-> "exporter_error", record |-> 0])
               /\ UNCHANGED <<existing, index_id, sync_state, active, data>>
    /\ UNCHANGED <<next_id, index_record, jobs, works, proc>>

\* the first generator is exhausted: the second loop asks the second
\* generator for a work
SyncPass ==
    /\ sync.pc = "export"
    /\ sync.k > Len(sync.keys)
    /\ sync' = sync_generator(DB, sync, "delete")
    /\ UNCHANGED <<next_id, existing, index_id, sync_state, active, data,
                   index_record, jobs, ret, works, proc>>

\* one turn of the second loop
SyncDelete(ok) ==
    /\ sync.pc = "delete"
    /\ sync.k <= Len(sync.keys)
    /\ LET records == sync_records(DB, sync)
           run == Run("deleter", DB, records, ok)
       IN IF ok
          THEN /\ Store(deleter_run(DB, records))
               /\ sync' = [sync EXCEPT !.k = @ + 1,
                                       !.delete_ids = @ \o records,
                                       !.log = Append(@, run)]
               /\ UNCHANGED ret
          ELSE /\ sync' = [sync EXCEPT !.pc = "failed", !.log = Append(@, run)]
               /\ ret' = Ret("synchronize",
                             [raised |-> "deleter_error", record |-> 0])
               /\ UNCHANGED <<existing, index_id, sync_state, active, data>>
    /\ UNCHANGED <<next_id, index_record, jobs, works, proc>>

\* the second generator is exhausted: the report is returned
SyncReturn ==
    /\ sync.pc = "delete"
    /\ sync.k > Len(sync.keys)
    /\ sync' = [sync EXCEPT !.pc = "returned", !.report = TRUE]
    /\ ret' = Ret("synchronize", NoError)
    /\ UNCHANGED <<next_id, existing, index_id, sync_state, active, data,
                   index_record, jobs, works, proc>>

\* active is written on a binding while synchronize is between two works:
\* by the component that has just run, or by another caller
WriteDuringSync(b, a) ==
    /\ sync.pc \in {"export", "delete"}
    /\ b \in existing
    /\ active[b] # a
    /\ Store(write(DB, <<b>>, [active |-> a]))
    /\ sync' = [sync EXCEPT !.stable = FALSE]
    /\ UNCHANGED <<next_id, index_record, jobs, ret, works, proc>>

NextSync ==
    \/ \E self \in RecordsetsOf(SyncIds) : SyncStart(self)
    \/ \E ok \in BOOLEAN : SyncExport(ok)
    \/ SyncPass
    \/ \E ok \in BOOLEAN : SyncDelete(ok)
    \/ SyncReturn
    \/ \E b \in SyncIds, a \in BOOLEAN : WriteDuringSync(b, a)

SpecSync == InitSync /\ [][NextSync]_vars

\* ------------------------------------- the life of a created binding
\* the periodic call of the scheduler: synchronize on all the bindings, as
\* a search on the model returns them
SyncStartAll ==
    \E self \in SortedRecordsets :
        /\ Range(self) = existing
        /\ self # <<>>
        /\ SyncStart(self)

\* the call has returned: the scheduler will call again
SyncAgain ==
    /\ sync.pc = "returned"
    /\ sync' = NoSync
    /\ UNCHANGED <<next_id, existing, index_id, sync_state, active, data,
                   index_record, jobs, ret, works, proc>>

\* the bindings created so far are exported and every job has run; one more
\* binding can be created
InitLive ==
    /\ next_id = NBindings
    /\ existing = 1..(NBindings - 1)
    /\ index_id = [b \in Ids |-> IF b < NBindings THEN 1 ELSE 0]
    /\ sync_state = [b \in Ids |-> IF b < NBindings THEN "done" ELSE "new"]
    /\ active = [b \in Ids |-> TRUE]
    /\ data = [b \in Ids |-> IF b < NBindings THEN "doc" ELSE None]
    /\ index_record = [b \in Ids |-> "doc"]
    /\ jobs = EmptyBag
    /\ ret = Ret("init", NoError)
    /\ works = NoWorks
    /\ sync = NoSync
    /\ proc = NoProc

\* A binding is created; the job runner executes every delayed job sooner or
\* later; the scheduler calls synchronize again and again, and no component
\* raises.
NextLive ==
    \/ Create
    \/ \E job \in BagToSet(jobs) : JobStart(job)
    \/ RecWrite
    \/ SyncStartAll
    \/ SyncExport(TRUE)
    \/ SyncPass
    \/ SyncDelete(TRUE)
    \/ SyncReturn
    \/ SyncAgain

SpecLive ==
    /\ InitLive
    /\ [][NextLive]_vars
    /\ WF_vars(\E job \in BagToSet(jobs) : JobStart(job))
    /\ WF_vars(RecWrite)
    /\ WF_vars(SyncStartAll)
    /\ WF_vars(SyncExport(TRUE))
    /\ WF_vars(SyncPass)
    /\ WF_vars(SyncDelete(TRUE))
    /\ WF_vars(SyncReturn)
    /\ WF_vars(SyncAgain)

\* ------------------------------------------------- overlapping runs
RaceIds == 1..NRaceBindings

\* Any table of bindings, with two recomputes delayed for each, one of them
\* forced.
InitRace ==
    /\ next_id = NRaceBindings + 1
    /\ existing = RaceIds
    /\ index_id \in [Ids -> 0..NIndexes]
    /\ \A b \in Ids : index_id[b] = 0 <=> b \notin existing
    /\ active \in [Ids -> BOOLEAN]
    /\ \A b \in Ids : b \notin existing => active[b]
    /\ sync_state \in [Ids -> States]
    /\ \A b \in Ids : b \notin existing => sync_state[b] = "new"
    /\ data \in [Ids -> StoredDocs]
    /\ \A b \in Ids : b \notin existing => data[b] = None
    /\ index_record \in [Ids -> Docs]
    /\ \A b \in Ids : b \notin existing => index_record[b] = "doc"
    /\ jobs = SetToBag({Job(b, f) : b \in RaceIds, f \in BOOLEAN})
    /\ ret = Ret("init", NoError)
    /\ works = NoWorks
    /\ sync = NoSync
    /\ proc = NoProc

\* One job runner executes a job statement by statement while another one
\* executes jobs, the scheduler calls synchronize once (no component
\* raises) and the business records change.
NextRace ==
    \/ \E job \in BagToSet(jobs) : JobStart(job)
    \/ RecWrite
    \/ RunJob
    \/ RecordChange
    \/ \E self \in RecordsetsOf(RaceIds) : SyncStart(self)
    \/ SyncExport(TRUE)
    \/ SyncPass
    \/ SyncDelete(TRUE)
    \/ SyncReturn

SpecRace == InitRace /\ [][NextRace]_vars

\* ------------------------------------------ the partitioner on its own
\* Any table of bindings over the indexes, created and not yet recomputed
\* (some deactivated, some removed since); the partitioner is applied once to
\* any recordset and either filter.
PartIds == 1..NPartBindings

InitPart ==
    /\ next_id = NPartBindings + 1
    /\ existing \in SUBSET PartIds
    /\ index_id \in [Ids -> 0..NPartIndexes]
    /\ \A b \in Ids : index_id[b] = 0 <=> b \notin existing
    /\ active \in [Ids -> BOOLEAN]
    /\ \A b \in Ids : b \notin existing => active[b]
    /\ sync_state = [b \in Ids |-> "new"]
    /\ data = [b \in Ids |-> None]
    /\ index_record = [b \in Ids |-> "doc"]
    /\ jobs = jobify(EmptyBag, [b \in PartIds |-> b], 1, FALSE)
    /\ ret = Ret("init", NoError)
    /\ works = NoWorks
    /\ sync = NoSync
    /\ proc = NoProc

WorkByIndex(self, act) ==
    /\ ~works.called
    /\ works' = [called |-> TRUE, self |-> self, active |-> act,
                 yielded |-> _work_by_index(DB, self, act)]
    /\ UNCHANGED <<next_id, existing, index_id, sync_state, active, data,
                   index_record, jobs, ret, steps>>

NextPart ==
    \E self \in RecordsetsOf(PartIds), act \in BOOLEAN : WorkByIndex(self, act)

SpecPart == InitPart /\ [][NextPart]_vars

\* ================================================================ claims
\* what the claims call a deletable binding
ClaimDeletable(b) ==
    \/ sync_state[b] = "new"
    \/ sync_state[b] = "done" /\ active[b] = FALSE

\* C1: unlink removes the requested bindings exactly when every one of them
\* is new, or done and inactive; in every other case it raises an error and
\* all of them continue to exist.
C1_UnlinkGuard ==
    \A self \in Recordsets :
        Range(self) \subseteq existing =>
            LET err == unlink_error(DB, self)
                db == unlink(DB, self)
            IN IF \A b \in Range(self) : ClaimDeletable(b)
               THEN err.raised = "" /\ db.existing = existing \ Range(self)
               ELSE err.raised # "" /\ db.existing = existing

\* a binding was removed by an earlier unlink and the last unlink was refused
C1_Witness ==
    /\ ret.op = "unlink"
    /\ ret.raised # ""
    /\ ret.record \in existing
    /\ \E b \in 1..(next_id - 1) : b \notin existing

\* C2: an unlink over a set with at least one binding that is not deletable
\* raises, removes no binding of the set and leaves sync_state, active and
\* data of every binding as they were.
C2_UnlinkAllOrNothing ==
    \A self \in Recordsets :
        (/\ Range(self) \subseteq existing
         /\ \E b \in Range(self) : ~ClaimDeletable(b)) =>
            LET db == unlink(DB, self)
            IN /\ unlink_error(DB, self).raised # ""
               /\ db.existing = existing
               /\ db.sync_state = sync_state
               /\ db.active = active
               /\ db.data = data

\* the refused unlink left in place a binding that is deletable on its own
C2_Witness ==
    /\ ret.op = "unlink"
    /\ ret.raised # ""
    /\ \E b \in existing : b # ret.record /\ ClaimDeletable(b)

\* C3: the error of a refused unlink is the one of the first binding of the
\* set, in iteration order, that is not deletable: "unactivate it first" when
\* that binding is active, "wait until it's synchronized" when it is not.
C3_UnlinkMessage ==
    \A self \in Recordsets :
        Range(self) \subseteq existing =>
            \A i \in DOMAIN self :
                (/\ ~ClaimDeletable(self[i])
                 /\ \A j \in 1..(i - 1) : ClaimDeletable(self[j])) =>
                    LET err == unlink_error(DB, self)
                    IN /\ err.record = self[i]
                       /\ active[self[i]] =>
                              err.raised = "cannot_delete_active"
                       /\ ~active[self[i]] =>
                              err.raised = "cannot_delete_not_synchronized"

\* a done, active binding was refused with "unactivate it first" while an
\* inactive binding that is not deletable either exists
C3_Witness ==
    /\ ret.op = "unlink"
    /\ ret.raised = "cannot_delete_active"
    /\ sync_state[ret.record] = "done"
    /\ \E b \in existing : ~active[b] /\ sync_state[b] = "to_update"

\* C4: a write of active=false leaves every binding of the set inactive, with
\* sync_state to_update when it was not new and still new when it was new
\* (the values written carrying no sync_state of their own); a write that
\* does not set active to false and carries no sync_state changes no
\* sync_state.
C4_Deactivate ==
    \A self \in SortedRecordsets, vals \in Vals :
        Range(self) \subseteq existing =>
            LET db == write(DB, self, vals)
            IN IF "active" \in DOMAIN vals /\ vals.active = FALSE
               THEN \A b \in Range(self) :
                       /\ db.active[b] = FALSE
                       /\ sync_state[b] # "new" => db.sync_state[b] = "to_update"
                       /\ (sync_state[b] = "new" /\ "sync_state" \notin DOMAIN vals)
                              => db.sync_state[b] = "new"
               ELSE "sync_state" \notin DOMAIN vals => db.sync_state = sync_state

\* after a write, one inactive binding is still new and another is to_update
C4_Witness ==
    /\ ret.op = "write"
    /\ \E b, c \in existing :
        /\ ~active[b] /\ sync_state[b] = "new"
        /\ ~active[c] /\ sync_state[c] = "to_update"

\* C5: after a recompute call, every binding whose data the call changed has
\* sync_state to_update.
C5_ChangedDataIsToUpdate ==
    \A self \in Recordsets, force_export \in BOOLEAN :
        Created(self) =>
            LET res == recompute_json(DB, self, force_export)
            IN \A b \in Ids :
                   res.db.data[b] # data[b] => res.db.sync_state[b] = "to_update"

\* a recompute has run and a binding holds its mapper output, flagged
C5_Witness ==
    /\ ret.op = "recompute_json"
    /\ \E b \in existing :
        /\ active[b]
        /\ data[b] = index_record[b]
        /\ sync_state[b] = "to_update"

\* C6: a second recompute with force=false over the same bindings, the
\* mapper outputs being the same, performs no write and no sync_state
\* transition.
C6_SecondRecomputeIsIdle ==
    \A self \in Recordsets :
        Created(self) =>
            LET first == recompute_json(DB, self, FALSE)
                second == recompute_json([first.db EXCEPT !.written = {}],
                                         self, FALSE)
            IN /\ second.db.written = {}
               /\ second.db.sync_state = first.db.sync_state
               /\ second.db.data = first.db.data

\* C7 as stated: recompute with force=true leaves every binding passed to it
\* with data equal to the mapper output and sync_state to_update.
C7_ForceRewritesEvery ==
    \A self \in Recordsets :
        Created(self) =>
            LET res == recompute_json(DB, self, TRUE)
            IN \A b \in Range(self) :
                   /\ res.db.data[b] = index_record[b]
                   /\ res.db.sync_state[b] = "to_update"

\* C7, amended: recompute with force=true leaves every existing, active
\* binding passed to it whose mapper output passes validation with data equal
\* to the mapper output and sync_state to_update, whatever its previous
\* sync_state and stored data.
C7_ForceRewritesValid ==
    \A self \in Recordsets :
        Created(self) =>
            LET res == recompute_json(DB, self, TRUE)
            IN \A b \in Range(self) :
                   (b \in existing /\ active[b] /\ index_record[b] \notin InvalidDocs)
                       => /\ res.db.data[b] = index_record[b]
                          /\ res.db.sync_state[b] = "to_update"
                          /\ b \in res.db.written

\* a recompute has run: an active binding holds its mapper output, flagged
\* to_update, and another binding is in quarantine beside it
C7_Witness ==
    /\ ret.op = "recompute_json"
    /\ \E b, c \in existing :
        /\ active[b] /\ data[b] = index_record[b] /\ sync_state[b] = "to_update"
        /\ sync_state[c] = "to_be_checked"

Remove(self, f) == SelectSeq(self, LAMBDA b : b # f)

\* C8: in a recompute batch an (existing, active) binding whose mapper output
\* fails validation ends to_be_checked with its data untouched, also with
\* force=true, and is named in the report; every other binding ends as it
\* would have with the failing binding absent from the batch.
C8_ValidationIsolation ==
    \A self \in Recordsets, force_export \in BOOLEAN :
        Created(self) =>
            LET res == recompute_json(DB, self, force_export)
            IN \A f \in Range(self) :
                   (f \in existing /\ active[f] /\ index_record[f] \in InvalidDocs) =>
                       LET without == recompute_json(DB, Remove(self, f), force_export)
                       IN /\ res.db.sync_state[f] = "to_be_checked"
                          /\ res.db.data[f] = data[f]
                          /\ f \in Range(res.validation_errors)
                          /\ \A b \in Ids \ {f} :
                                 /\ res.db.sync_state[b] = without.db.sync_state[b]
                                 /\ res.db.data[b] = without.db.data[b]
                                 /\ res.db.active[b] = without.db.active[b]
                                 /\ b \in Range(res.validation_errors)
                                        <=> b \in Range(without.validation_errors)

\* a recompute has left one binding in quarantine with its old data and
\* another binding updated
C8_Witness ==
    /\ ret.op = "recompute_json"
    /\ \E f, b \in existing :
        /\ active[f] /\ index_record[f] \in InvalidDocs
        /\ sync_state[f] = "to_be_checked" /\ data[f] # index_record[f]
        /\ active[b] /\ sync_state[b] = "to_update" /\ data[b] = index_record[b]

\* the bindings a _work_by_index call is about: the existing ones of the
\* recordset whose active flag is the filter
Filtered == { b \in Range(works.self) \cap existing : active[b] = works.active }

\* C9: the groups yielded by _work_by_index are disjoint and cover exactly
\* the existing bindings of the recordset whose active flag equals the
\* filter: each of them is in exactly one group, once, and no other binding
\* is in any group.
C9_GroupsPartition ==
    works.called =>
        LET yielded == works.yielded
        IN /\ \A b \in Filtered :
                  Cardinality({k \in DOMAIN yielded :
                                  b \in Range(yielded[k].records)}) = 1
           /\ \A k \in DOMAIN yielded :
                  /\ Range(yielded[k].records) \subseteq Filtered
                  /\ Cardinality(Range(yielded[k].records))
                         = Len(yielded[k].records)

\* a call over a recordset with bindings of both active values yielded two
\* groups with records for one backend
C9_Witness ==
    /\ works.called
    /\ \E b \in Range(works.self) \cap existing : active[b] # works.active
    /\ \E k, m \in DOMAIN works.yielded :
        /\ k # m
        /\ works.yielded[k].backend = works.yielded[m].backend
        /\ works.yielded[k].records # <<>>
        /\ works.yielded[m].records # <<>>

\* C10: _work_by_index yields no work session with an empty record set, and
\* as many sessions as there are distinct (backend, index) pairs among the
\* bindings that pass the active filter.
C10_NoEmptyGroup ==
    works.called =>
        /\ \A k \in DOMAIN works.yielded : works.yielded[k].records # <<>>
        /\ Len(works.yielded)
               = Cardinality({ <<backend_id(index_id[b]), index_id[b]>> :
                                   b \in Filtered })

\* the bindings handed to the components of one usage by the synchronize
\* call so far
HandedTo(usage) ==
    UNION { Range(sync.log[i].records) :
                i \in {j \in DOMAIN sync.log : sync.log[j].usage = usage} }

\* C11: within one synchronize call no binding that was active when the call
\* started is handed to both an exporter and a deleter, and when the call
\* returns every existing binding of the set has been handed to one of them.
C11_OneSnapshot ==
    /\ \A b \in sync.entry_active :
           ~(b \in HandedTo("exporter") /\ b \in HandedTo("deleter"))
    /\ sync.pc = "returned" =>
           sync.entry \subseteq HandedTo("exporter") \cup HandedTo("deleter")

\* C12: when active is not written during the call, a synchronize call that
\* returns has run the exporters over exactly the existing active bindings
\* of the set and the deleters over exactly the existing inactive ones,
\* every exporter before every deleter, and its report lists exactly the
\* active bindings as exported and the inactive ones as deleted, each id once.
C12_StableSynchronize ==
    (sync.pc = "returned" /\ sync.stable) =>
        LET act == {b \in Range(sync.self) \cap existing : active[b]}
            inact == {b \in Range(sync.self) \cap existing : ~active[b]}
        IN /\ HandedTo("exporter") = act
           /\ HandedTo("deleter") = inact
           /\ Range(sync.export_ids) = act
           /\ Len(sync.export_ids) = Cardinality(act)
           /\ Range(sync.delete_ids) = inact
           /\ Len(sync.delete_ids) = Cardinality(inact)
           /\ \A i, j \in DOMAIN sync.log :
                  (sync.log[i].usage = "exporter"
                   /\ sync.log[j].usage = "deleter") => i < j
           /\ \A i \in DOMAIN sync.log : sync.log[i].ok

\* a synchronize call over active and inactive bindings has returned, active
\* never written meanwhile
C12_Witness ==
    /\ sync.pc = "returned"
    /\ sync.stable
    /\ sync.export_ids # <<>>
    /\ sync.delete_ids # <<>>

\* C13: no binding that is to_be_checked, done, or new without computed data
\* when its work is yielded is handed to an exporter or listed as exported.
C13_OnlyNeedingSync ==
    \A i \in DOMAIN sync.log :
        sync.log[i].usage = "exporter" =>
            \A t \in sync.log[i].seen :
                /\ t[2] \notin {"to_be_checked", "done"}
                /\ ~(t[2] = "new" /\ t[3] = None)

\* C14: a synchronize call in which an exporter or a deleter raised has ended
\* with that error, after that run, without a report; and a recompute_json
\* call (made while no synchronize call is in progress) that maps a binding
\* whose mapper raises ends with the mapper's error, without a report, that
\* binding not written, not to_be_checked either.
C14_ErrorsPropagate ==
    /\ \A i \in DOMAIN sync.log :
           ~sync.log[i].ok =>
               /\ sync.pc = "failed"
               /\ ~sync.report
               /\ ret.op = "synchronize"
               /\ ret.raised = IF sync.log[i].usage = "exporter"
                               THEN "exporter_error" ELSE "deleter_error"
    /\ \A self \in Recordsets, force_export \in BOOLEAN :
           LET res == recompute_json(DB, self, force_export)
               raising == {b \in Range(self) \cap existing :
                              active[b] /\ index_record[b] = MapperError}
           IN (sync.pc = "idle" /\ Created(self) /\ raising # {}) =>
                  /\ res.raised \in raising
                  /\ MapperRaised(res).raised = MapperError
                  /\ res.validation_errors = <<>>
                  /\ \A b \in raising :
                         /\ res.db.sync_state[b] = sync_state[b]
                         /\ res.db.data[b] = data[b]

\* a deleter has raised after an exporter ran over some bindings, and the
\* mapper raises for an active binding that is not to_be_checked
C14_Witness ==
    /\ sync.pc = "failed"
    /\ ret.raised = "deleter_error"
    /\ sync.export_ids # <<>>
    /\ \E b \in existing : /\ active[b]
                            /\ index_record[b] = MapperError
                            /\ sync_state[b] # "to_be_checked"

\* C15 as stated: when an exporter raised, the exporters have still run over
\* every active binding of the set and the deleters over every inactive one.
C15_FailureIsolated ==
    (sync.pc = "failed" /\ ret.raised = "exporter_error") =>
        /\ {b \in sync.entry : active[b]} \subseteq HandedTo("exporter")
        /\ {b \in sync.entry : ~active[b]} \subseteq HandedTo("deleter")

\* C15: the run of an exporter that raised is the last run of the call: no
\* exporter runs over the works that follow, no deleter runs at all, and no
\* report is returned.
C15_FailureAborts ==
    \A i \in DOMAIN sync.log :
        (sync.log[i].usage = "exporter" /\ ~sync.log[i].ok) =>
            /\ i = Len(sync.log)
            /\ HandedTo("deleter") = {}
            /\ ~sync.report

\* an exporter has raised while an active binding of the set was still to be
\* exported and an inactive one to be deleted
C15_Witness ==
    /\ sync.pc = "failed"
    /\ ret.raised = "exporter_error"
    /\ \E b \in sync.entry : active[b] /\ b \notin HandedTo("exporter")
    /\ \E b \in sync.entry : ~active[b]

\* C16: a create step inserts the binding with sync_state new and the data
\* it was given, delays exactly one not forced recompute job for it and
\* touches no other binding; jobify_recompute_json delays one job per record
\* of the set, each with the force flag of the call; and the data or the
\* sync_state of a binding changes in no step but the execution of a job.
C16_CreateDefers ==
    /\ [](\A self \in Recordsets, force_export \in BOOLEAN :
             jobify(jobs, self, 1, force_export)
                 = jobs (+) SetToBag({Job(b, force_export) : b \in Range(self)}))
    /\ [][ /\ (ret'.op = "create") =>
                  ( /\ existing' = existing \cup {next_id}
                    /\ sync_state'[next_id] = "new"
                    /\ data'[next_id] \in StoredDocs
                    /\ jobs' = jobs (+) SetToBag({Job(next_id, FALSE)}) )
           /\ (ret'.op # "job") =>
                  (\A b \in existing : /\ data'[b] = data[b]
                                        /\ sync_state'[b] = sync_state[b])
          ]_vars

\* create has just returned: the binding is new, its data differs from what
\* the mapper returns for it, and its one job is pending
C16_Witness ==
    /\ ret.op = "create"
    /\ \E b \in existing :
           /\ active[b]
           /\ sync_state[b] = "new"
           /\ index_record[b] \notin InvalidDocs
           /\ data[b] # index_record[b]
           /\ CopiesIn(Job(b, FALSE), jobs) = 1
           /\ BagCardinality(jobs) = Cardinality(existing)

\* C17: nothing holds back the write of a recompute_json run whatever was
\* written on the binding since the run read it, and the write stores the
\* values the run built from what it had read (the last write wins).
C17_LastWriteWins ==
    /\ [](proc.pc # "idle" => ENABLED RecWrite)
    /\ [][(proc.pc # "idle" /\ proc'.pc = "idle") =>
              LET b == proc.binding
              IN /\ data'[b] = IF "data" \in DOMAIN proc.vals
                                THEN proc.vals.data ELSE data[b]
                 /\ sync_state'[b] = IF "sync_state" \in DOMAIN proc.vals
                                      THEN proc.vals.sync_state
                                      ELSE sync_state[b]
          ]_vars

\* a lost update: a job has just written data on a binding that an exporter
\* marked done since the job read it; the binding is done and its data is
\* not the document the exporter has seen
C17_Witness ==
    /\ ret.op = "job"
    /\ proc.pc = "idle"
    /\ \E b \in existing :
           /\ sync_state[b] = "done"
           /\ \E i \in DOMAIN sync.log :
                  /\ sync.log[i].usage = "exporter"
                  /\ \E t \in sync.log[i].seen : t[1] = b /\ t[3] # data[b]

\* what C18 is about: an existing active binding whose mapper output
\* validates (in the life of a created binding active and the mapper output
\* never change)
Exportable(b) ==
    /\ b \in existing
    /\ active[b]
    /\ index_record[b] \notin InvalidDocs

\* C18 as stated: every newly created binding that stays active and whose
\* mapper output validates eventually is done with data equal to the mapper
\* output, and eventually is to_update, also when the mapper output equals
\* the data it was created with.
C18_DoneThroughToUpdate ==
    \A b \in 1..NBindings :
        /\ (Exportable(b) /\ sync_state[b] = "new")
               ~> (sync_state[b] = "done" /\ data[b] = index_record[b])
        /\ (Exportable(b) /\ sync_state[b] = "new")
               ~> (sync_state[b] = "to_update")

\* C18: every binding that stays active and whose mapper output validates
\* eventually is done with data equal to the mapper output; a newly created
\* one eventually is to_update if the data it was created with differs from
\* the mapper output.
C18_EventuallyDone ==
    \A b \in 1..NBindings :
        /\ Exportable(b) ~> (sync_state[b] = "done" /\ data[b] = index_record[b])
        /\ (Exportable(b) /\ sync_state[b] = "new" /\ data[b] # index_record[b])
               ~> (sync_state[b] = "to_update")

\* every job has run and synchronize has returned: a binding is done with
\* the mapper output as data
C18_Witness ==
    /\ ret.op = "synchronize"
    /\ jobs = EmptyBag
    /\ proc.pc = "idle"
    /\ \E b \in existing : /\ Exportable(b)
                            /\ b = NBindings
                            /\ sync_state[b] = "done"
                            /\ data[b] = index_record[b]

C20_InactiveUntouched ==
    \A self \in Recordsets, force_export \in BOOLEAN :
        Created(self) =>
            LET res == recompute_json(DB, self, force_export)
            IN \A b \in Range(self) \cap existing :
                   ~active[b] =>
                       /\ res.db.data[b] = data[b]
                       /\ res.db.sync_state[b] = sync_state[b]
                       /\ b \notin Range(res.validation_errors)

\* a forced recompute_json has just run while an inactive binding holds
\* data that differs from what the mapper returns for it
C20_Witness ==
    /\ ret.op = "recompute_json"
    /\ \E b \in existing :
           /\ ~active[b]
           /\ sync_state[b] # "to_update"
           /\ data[b] # index_record[b]
           /\ \E c \in existing : active[c] /\ sync_state[c] = "to_update"
                                   /\ data[c] = index_record[c]

====
